---- MODULE Spec2Model ----
(***************************************************************************)
(* A model of the lexer of ccr (src/src/lexer): the Scanner cursor, the    *)
(* classifier next_token with its sub-scans, the literal decoder symbolize *)
(* and the driver Scanner::test built on Scanner::iterate.                 *)
(*                                                                         *)
(* A source text is a sequence of characters; a character is a one-element *)
(* string, except the two-byte character U+00E9 which stands for every     *)
(* character whose UTF-8 encoding is longer than one byte.  Offsets and    *)
(* lengths are byte counts, as str::len and Chars::as_str().len() are.     *)
(***************************************************************************)
EXTENDS Integers, Sequences, FiniteSets, TLC

\* Longest source text drawn by Init, in characters.
MaxLen == 4

----------------------------------------------------------------------------
\* Characters

\* scanner.rs:5  pub const EOF: char = '\0'
EOF == "NUL"

\* A character outside ASCII, two bytes long in UTF-8.
EAcute == "U+00E9"

Lower == {"a","b","c","d","e","f","g","h","i","j","k","l","m",
          "n","o","p","q","r","s","t","u","v","w","x","y","z"}

Upper == {"A","B","C","D","E","F","G","H","I","J","K","L","M",
          "N","O","P","Q","R","S","T","U","V","W","X","Y","Z"}

\* char::is_ascii_alphabetic
is_ascii_alphabetic(c) == c \in Lower \cup Upper

\* char::is_ascii_digit
is_ascii_digit(c) == c \in {"0","1","2","3","4","5","6","7","8","9"}

\* char::is_ascii_hexdigit
is_ascii_hexdigit(c) ==
    \/ is_ascii_digit(c)
    \/ c \in {"a","b","c","d","e","f","A","B","C","D","E","F"}

\* types.rs:90  ScannerTypes::is_identifier for char
is_identifier(c) == is_ascii_alphabetic(c) \/ c = "_"

\* char::len_utf8: the bytes a character takes in the source buffer.
len_utf8(c) == IF c = EAcute THEN 2 ELSE 1

\* str::len of a text: the sum of its characters' encoded widths.
RECURSIVE ByteLen(_)
ByteLen(str) == IF str = <<>> THEN 0 ELSE len_utf8(Head(str)) + ByteLen(Tail(str))

\* The families of characters source texts are drawn from.  Each family holds
\* the characters one group of classifier rules reads.
AlphaOps     == {"-", ">", "+", "<", "=", "!", "a"}
AlphaNum     == {"0", "1", "7", "9", "b", "x", "A", "."}
AlphaText    == {"\"", "a", " ", "\n", "$", EAcute}
AlphaComment == {"/", "*", "a", " ", "\n", "}"}
AlphaIdent   == {"a", "Z", "_", "1", "<", ">", EAcute}
Alphabets    == {AlphaOps, AlphaNum, AlphaText, AlphaComment, AlphaIdent}

SeqsUpTo(A, n) == UNION {[1..k -> A] : k \in 0..n}

Sources == UNION {SeqsUpTo(A, MaxLen) : A \in Alphabets}

----------------------------------------------------------------------------
\* types.rs: Base, CTokenKind, Symbol, Span, CToken

Binary      == 2
Octal       == 8
Decimal     == 10
Hexadecimal == 16

\* Span::len
len(span) == span.start + span.end

\* Span::is_empty
is_empty(span) == span.start + span.end = 0

\* A CTokenKind without payload.
Kind(tag) == [tag |-> tag, kind |-> "None", base |-> 0, suffix_start |-> 0]

\* CTokenKind::Literal { kind, suffix_start }, kind a LiteralKind with its base.
Literal(kind, base, suffix_start) ==
    [tag |-> "Literal", kind |-> kind, base |-> base, suffix_start |-> suffix_start]

\* Symbol: Int carries num; Float carries the decimal num / 10^frac; String and
\* Literal carry text.
SymbolNone        == [tag |-> "None",    num |-> 0, frac |-> 0, text |-> <<>>]
SymbolInt(n)      == [tag |-> "Int",     num |-> n, frac |-> 0, text |-> <<>>]
SymbolFloat(n, f) == [tag |-> "Float",   num |-> n, frac |-> f, text |-> <<>>]
SymbolString(t)   == [tag |-> "String",  num |-> 0, frac |-> 0, text |-> t]
SymbolLiteral(t)  == [tag |-> "Literal", num |-> 0, frac |-> 0, text |-> t]

Span(start, end) == [start |-> start, end |-> end]

CToken(kind, symbol, span) == [kind |-> kind, symbol |-> symbol, span |-> span]

NoToken == CToken(Kind("None"), SymbolNone, Span(0, 0))

----------------------------------------------------------------------------
VARIABLES
    source,         \* Scanner.source
    chars,          \* Scanner.chars: the text not yet consumed
    remaining_len,  \* Scanner.remaining_len
    line,           \* Scanner.line
    stream,         \* the TokenStream Scanner::test builds
    tt,             \* the token the last next_token call returned
    calls,          \* next_token calls made so far
    pc              \* "scanning", "done" (test returned) or "panicked"

vars == <<source, chars, remaining_len, line, stream, tt, calls, pc>>

\* The mutable part of a Scanner, as the sub-scans pass it along.
Scanner(c, r, l) == [chars |-> c, remaining_len |-> r, line |-> l]

----------------------------------------------------------------------------
\* scanner.rs: the cursor

\* Scanner::first: the next character, or EOF when none is left.
first(s) == IF s.chars = <<>> THEN EOF ELSE Head(s.chars)

\* Scanner::normalize
normalize(p) == ByteLen(source) - p

\* Scanner::pos
pos(s) == normalize(ByteLen(s.chars))

\* A variant of reset_pos that leaves remaining_len as it was.
reset_pos_stale(s) == s

\* Scanner::reset_pos
reset_pos(s) == [s EXCEPT !.remaining_len = ByteLen(s.chars)]

\* Scanner::is_eof
is_eof(s) == s.chars = <<>>

\* Scanner::advance: Chars::next; at the end it returns None and changes nothing.
advance(s) == IF s.chars = <<>> THEN s ELSE [s EXCEPT !.chars = Tail(s.chars)]

\* Scanner::advance_while; predicate is the closure as a function of the
\* character, EOF included, since the loop's test reads first() before is_eof().
RECURSIVE advance_while(_, _)
advance_while(s, predicate) ==
    IF predicate[first(s)] /\ ~is_eof(s)
    THEN advance_while(advance(s), predicate)
    ELSE s

\* Every character a closure can be handed.
Char == (UNION Alphabets) \cup {EOF}

----------------------------------------------------------------------------
\* scanner.rs: the sub-scans.  Each returns the scanner it leaves and the kind.

Scanned(s, kind) == [s |-> s, kind |-> kind]

\* A variant of header that takes the closing '>' into the token as well.
header_through_gt(s) ==
    LET is_header == [c \in Char |-> c # ">"]
    IN  Scanned(advance(advance_while(s, is_header)), Kind("Header"))

\* Scanner::header
header(s) ==
    LET is_header == [c \in Char |-> c # ">"]
    IN  Scanned(advance_while(s, is_header), Kind("Header"))

\* A variant of identifier whose run takes digits too.
identifier_alnum(s) ==
    LET ident == [c \in Char |-> is_identifier(c) \/ is_ascii_digit(c)]
    IN  Scanned(advance_while(s, ident), Kind("Ident"))

\* Scanner::identifier
identifier(s) ==
    LET ident == [c \in Char |-> is_identifier(c)]
    IN  Scanned(advance_while(s, ident), Kind("Ident"))

\* A variant of numbers whose decimal scan never looks for a '.'.
numbers_no_float(s, base) ==
    LET bin == [c \in Char |-> c \in {"0", "1"}]
        oct == [c \in Char |-> c \in {"0","1","2","3","4","5","6","7"}]
        dec == [c \in Char |-> is_ascii_digit(c)]
        hex == [c \in Char |-> is_ascii_hexdigit(c)]
    IN  CASE base = Binary ->
                Scanned(advance_while(s, bin), Literal("Int", base, 2))
          [] base = Octal ->
                Scanned(advance_while(s, oct), Literal("Int", base, 0))
          [] base = Decimal ->
                Scanned(advance_while(s, dec), Literal("Int", base, 0))
          [] base = Hexadecimal ->
                Scanned(advance_while(s, hex), Literal("Int", base, 2))

\* Scanner::numbers
numbers(s, base) ==
    LET bin == [c \in Char |-> c \in {"0", "1"}]
        oct == [c \in Char |-> c \in {"0","1","2","3","4","5","6","7"}]
        dec == [c \in Char |-> is_ascii_digit(c)]
        hex == [c \in Char |-> is_ascii_hexdigit(c)]
    IN  CASE base = Binary ->
                Scanned(advance_while(s, bin), Literal("Int", base, 2))
          [] base = Octal ->
                Scanned(advance_while(s, oct), Literal("Int", base, 0))
          [] base = Decimal ->
                LET s1 == advance_while(s, dec)
                IN  IF first(s1) = "."
                    THEN Scanned(advance_while(advance(s1), dec),
                                 Literal("Float", base, 0))
                    ELSE Scanned(s1, Literal("Int", base, 0))
          [] base = Hexadecimal ->
                Scanned(advance_while(s, hex), Literal("Int", base, 2))

\* Scanner::line_comment
line_comment(s) ==
    LET is_line == [c \in Char |-> c # "\n"]
        s1 == advance_while(s, is_line)
    IN  Scanned([s1 EXCEPT !.line = @ + 1], Kind("LineComment"))

\* Scanner::block_comment: the loop, one character per turn.
RECURSIVE block_comment_loop(_)
block_comment_loop(s) ==
    IF s.chars = <<>>
    THEN s
    ELSE LET c  == Head(s.chars)
             s1 == advance(s)
         IN  CASE c = "\n" -> block_comment_loop([s1 EXCEPT !.line = @ + 1])
               [] c = "*" /\ first(s1) = "/" -> advance(s1)
               [] OTHER -> block_comment_loop(s1)

\* Scanner::block_comment
block_comment(s) == Scanned(block_comment_loop(s), Kind("BlockComment"))

\* Scanner::is_whitespace_line: the answer, and the scanner with its line counted.
is_whitespace_line(s, c) ==
    CASE c = "\n" -> [s |-> [s EXCEPT !.line = @ + 1], ws |-> TRUE]
      [] c \in {"\r", " ", "\t"} -> [s |-> s, ws |-> TRUE]
      [] OTHER -> [s |-> s, ws |-> FALSE]

\* Scanner::is_whitespace
is_whitespace(c) == c \in {"\n", "\r", " ", "\t"}

\* Scanner::skip_whitespace (its CTokenKind::Whitespace result is dropped by
\* the only caller).
skip_whitespace(s) ==
    reset_pos(advance_while(s, [c \in Char |-> is_whitespace(c)]))

\* A variant of string that stops before the closing quote.
string_unclosed(s) ==
    LET is_string == [c \in Char |-> c # "\""]
    IN  Scanned(advance_while(s, is_string), Literal("Str", 0, 1))

\* Scanner::string
string(s) ==
    LET is_string == [c \in Char |-> c # "\""]
    IN  Scanned(advance(advance_while(s, is_string)), Literal("Str", 0, 1))

----------------------------------------------------------------------------
\* The standard-library conversions symbolize calls.  Each returns ok = FALSE
\* where the Rust call returns Err or panics.

\* str::is_char_boundary
is_char_boundary(str, i) ==
    \E k \in 0..Len(str) : ByteLen(SubSeq(str, 1, k)) = i

\* The characters of str that lie before byte offset i, a character boundary.
chars_before(str, i) ==
    CHOOSE k \in 0..Len(str) : ByteLen(SubSeq(str, 1, k)) = i

\* &str[from..to]: panics when from > to, when to is past the end, and when
\* either offset is inside a character.
slice(str, from, to) ==
    IF /\ from <= to
       /\ to <= ByteLen(str)
       /\ is_char_boundary(str, from)
       /\ is_char_boundary(str, to)
    THEN [ok |-> TRUE,
          val |-> SubSeq(str, chars_before(str, from) + 1, chars_before(str, to))]
    ELSE [ok |-> FALSE, val |-> <<>>]

\* char::to_digit(radix), -1 for None.
to_digit(c, radix) ==
    LET v == CASE c = "0" -> 0 [] c = "1" -> 1 [] c = "2" -> 2 [] c = "3" -> 3
               [] c = "4" -> 4 [] c = "5" -> 5 [] c = "6" -> 6 [] c = "7" -> 7
               [] c = "8" -> 8 [] c = "9" -> 9
               [] c \in {"a", "A"} -> 10 [] c \in {"b", "B"} -> 11
               [] c \in {"c", "C"} -> 12 [] c \in {"d", "D"} -> 13
               [] c \in {"e", "E"} -> 14 [] c \in {"f", "F"} -> 15
               [] OTHER -> -1
    IN  IF v < radix THEN v ELSE -1

\* The digit loop of usize::from_str_radix: result = result * radix + digit,
\* left to right; an invalid digit is Err.
RECURSIVE from_str_radix_loop(_, _, _)
from_str_radix_loop(digits, radix, result) ==
    IF digits = <<>>
    THEN [ok |-> TRUE, val |-> result]
    ELSE LET x == to_digit(Head(digits), radix)
         IN  IF x = -1
             THEN [ok |-> FALSE, val |-> 0]
             ELSE from_str_radix_loop(Tail(digits), radix, result * radix + x)

\* A variant of from_str_radix that reads every digit run as decimal.
from_str_radix_decimal(src, radix) ==
    IF src = <<>>
    THEN [ok |-> FALSE, val |-> 0]
    ELSE from_str_radix_loop(src, 10, 0)

\* usize::from_str_radix: Err(Empty) on the empty text.  A digit run of at most
\* 16 digits cannot overflow a 64-bit usize in any radix up to 16 (the library's
\* own can_not_overflow test); every text here is shorter than that.
from_str_radix(src, radix) ==
    IF src = <<>>
    THEN [ok |-> FALSE, val |-> 0]
    ELSE from_str_radix_loop(src, radix, 0)

\* str::parse::<f64> on digits with at most one '.', at least one digit.  The
\* value is kept as the exact decimal num / 10^frac.
parse_f64(src) ==
    LET dots   == {i \in 1..Len(src) : src[i] = "."}
        digits == SelectSeq(src, LAMBDA c : c # ".")
        valid  == /\ \A i \in 1..Len(src) : src[i] = "." \/ is_ascii_digit(src[i])
                  /\ Cardinality(dots) <= 1
                  /\ digits # <<>>
        frac   == IF dots = {} THEN 0 ELSE Len(src) - (CHOOSE i \in dots : TRUE)
    IN  IF valid
        THEN [ok |-> TRUE, num |-> from_str_radix_loop(digits, 10, 0).val, frac |-> frac]
        ELSE [ok |-> FALSE, num |-> 0, frac |-> 0]

----------------------------------------------------------------------------
\* scanner.rs: the literal decoder and the classifier

Decoded(symbol)  == [ok |-> TRUE,  symbol |-> symbol]
DecodePanic      == [ok |-> FALSE, symbol |-> SymbolNone]

\* symbolize line 88: usize::from_str_radix(&lexeme[suffix_start..], base)
parse_int(digits, base) ==
    IF digits.ok THEN from_str_radix(digits.val, base) ELSE [ok |-> FALSE, val |-> 0]

\* symbolize lines 88-90: .unwrap().into()
unwrap_int(parsed) ==
    IF parsed.ok THEN Decoded(SymbolInt(parsed.val)) ELSE DecodePanic

\* symbolize line 93: lexeme.parse::<f64>().unwrap().into()
unwrap_float(parsed) ==
    IF parsed.ok THEN Decoded(SymbolFloat(parsed.num, parsed.frac)) ELSE DecodePanic

\* symbolize lines 97-99: Symbol::String over the slice, if the slice exists
string_symbol(inner) ==
    IF inner.ok THEN Decoded(SymbolString(inner.val)) ELSE DecodePanic

\* Scanner::symbolize, the match on the kind, given the lexeme slice.
\* ok = FALSE is a panic: an unwrap of Err, a slice out of range, or todo!().
decode(tt_ty, lexeme) ==
    CASE ~lexeme.ok -> DecodePanic
      [] lexeme.ok /\ tt_ty.tag # "Literal" -> Decoded(SymbolLiteral(lexeme.val))
      [] lexeme.ok /\ tt_ty.tag = "Literal" /\ tt_ty.kind = "Int" ->
            unwrap_int(parse_int(slice(lexeme.val, tt_ty.suffix_start,
                                       ByteLen(lexeme.val)),
                                 tt_ty.base))
      [] lexeme.ok /\ tt_ty.tag = "Literal" /\ tt_ty.kind = "Float" ->
            unwrap_float(parse_f64(lexeme.val))
      [] lexeme.ok /\ tt_ty.tag = "Literal" /\ tt_ty.kind = "Str" ->
            string_symbol(slice(lexeme.val, tt_ty.suffix_start,
                                ByteLen(lexeme.val) - 1))
      [] lexeme.ok /\ tt_ty.tag = "Literal" /\ tt_ty.kind \in {"Char", "Byte"} ->
            DecodePanic
      [] OTHER -> Decoded(SymbolLiteral(lexeme.val))

\* Scanner::symbolize
symbolize(tt_ty, start, end) == decode(tt_ty, slice(source, start, end))

\* What next_token hands back: the scanner it leaves, the token, and whether
\* the call panicked instead of returning.
Returned(s, token) == [s |-> s, token |-> token, panicked |-> FALSE]
Panicked(s)        == [s |-> s, token |-> NoToken, panicked |-> TRUE]

\* Scanner::tokenize line 116: CToken::new, unless symbolize panicked.
new_token(s, kind, symbol, span) ==
    IF symbol.ok
    THEN Returned(s, CToken(kind, symbol.symbol, span))
    ELSE Panicked(s)

\* Scanner::tokenize
tokenize(s, kind) ==
    new_token(s, kind,
              symbolize(kind, normalize(s.remaining_len), pos(s)),
              Span(normalize(s.remaining_len), pos(s)))

\* Scanner::next_token, lines 135-204: the kind chosen from the first character
\* (already consumed) and the sub-scan it drives.
token_kind(s, first_char) ==
    CASE first_char = "/" ->
            ( CASE first(s) = "/" -> line_comment(s)
                [] first(s) = "*" -> block_comment(s)
                [] OTHER -> Scanned(s, Kind("Slash")) )
      [] first_char # "/" /\ is_identifier(first_char) -> identifier(s)
      [] first_char = "0" ->
            ( CASE first(s) = "b" -> numbers(advance(s), Binary)
                [] first(s) = "x" -> numbers(advance(s), Hexadecimal)
                [] first(s) \in {"0","1","2","3","4","5","6","7"} -> numbers(s, Octal)
                [] OTHER -> numbers(s, Decimal) )
      [] first_char \in {"1","2","3","4","5","6","7","8","9"} -> numbers(s, Decimal)
      [] first_char = ";" -> Scanned(s, Kind("SemiColon"))
      [] first_char = "," -> Scanned(s, Kind("Comma"))
      [] first_char = "." -> Scanned(s, Kind("Dot"))
      [] first_char = "(" -> Scanned(s, Kind("LeftParen"))
      [] first_char = ")" -> Scanned(s, Kind("RightParen"))
      [] first_char = "{" -> Scanned(s, Kind("LeftBrace"))
      [] first_char = "}" -> Scanned(s, Kind("RightBrace"))
      [] first_char = "[" -> Scanned(s, Kind("LeftBraket"))
      [] first_char = "]" -> Scanned(s, Kind("RightBracket"))
      [] first_char = "#" -> Scanned(s, Kind("Pound"))
      [] first_char = "*" -> Scanned(s, Kind("Star"))
      [] first_char = "&" -> Scanned(s, Kind("And"))
      [] first_char = "|" -> Scanned(s, Kind("Or"))
      [] first_char = "^" -> Scanned(s, Kind("Caret"))
      [] first_char = "~" -> Scanned(s, Kind("Tilde"))
      [] first_char = "\"" -> string(s)
      [] first_char = "-" ->
            ( CASE first(s) = "-" -> Scanned(s, Kind("MinusMinus"))
                [] first(s) = ">" -> Scanned(s, Kind("Arrow"))
                [] OTHER -> Scanned(s, Kind("Minus")) )
      [] first_char = "+" ->
            ( CASE first(s) = "+" -> Scanned(s, Kind("PlusPlus"))
                [] OTHER -> Scanned(s, Kind("Plus")) )
      [] first_char = "<" ->
            ( CASE is_ascii_alphabetic(first(s)) -> header(s)
                [] first(s) = "=" -> Scanned(s, Kind("LtEqual"))
                [] OTHER -> Scanned(s, Kind("Lt")) )
      [] first_char = ">" ->
            ( CASE first(s) = "=" -> Scanned(s, Kind("GtEqual"))
                [] OTHER -> Scanned(s, Kind("Gt")) )
      [] first_char = "=" ->
            ( CASE first(s) = "=" -> Scanned(s, Kind("EqualEqual"))
                [] OTHER -> Scanned(s, Kind("Equal")) )
      [] first_char = "!" ->
            ( CASE first(s) = "=" -> Scanned(s, Kind("BangEqual"))
                [] OTHER -> Scanned(s, Kind("Bang")) )
      [] OTHER -> Scanned(s, Kind("Unknown"))

\* A variant of then_reset_pos that returns the token without reset_pos.
without_reset_pos(res) == res

\* Scanner::next_token, line 207: reset_pos once tokenize has returned.
then_reset_pos(res) ==
    IF res.panicked THEN res ELSE Returned(reset_pos(res.s), res.token)

\* Scanner::next_token, lines 206-208
emit(scanned) == then_reset_pos(tokenize(scanned.s, scanned.kind))

\* Scanner::next_token, lines 124-128: after the first whitespace character.
after_whitespace(s) ==
    IF s.chars = <<>>
    THEN tokenize(s, Kind("Eof"))
    ELSE emit(token_kind(advance(s), Head(s.chars)))

\* A variant of classify that returns a run of whitespace as a token of kind
\* Whitespace instead of skipping it.
classify_whitespace_token(w, c) ==
    IF w.ws
    THEN emit(Scanned(advance_while(w.s, [x \in Char |-> is_whitespace(x)]),
                      Kind("Whitespace")))
    ELSE emit(token_kind(w.s, c))

\* Scanner::next_token, lines 122-131: c is the character advance() returned.
classify(w, c) ==
    IF w.ws THEN after_whitespace(skip_whitespace(w.s)) ELSE emit(token_kind(w.s, c))

\* A variant of next_token that reads its first character with first()
\* instead of advance(), so that the character is not consumed.
next_token_peek(s) ==
    IF s.chars = <<>>
    THEN Returned(s, CToken(Kind("Eof"), SymbolNone, Span(0, 0)))
    ELSE classify(is_whitespace_line(s, Head(s.chars)), Head(s.chars))

\* Scanner::next_token
next_token(s) ==
    IF s.chars = <<>>
    THEN Returned(s, CToken(Kind("Eof"), SymbolNone, Span(0, 0)))
    ELSE classify(is_whitespace_line(advance(s), Head(s.chars)), Head(s.chars))

\* A variant of some that yields the Eof token too.
some_with_eof(r) == ~r.panicked

\* Scanner::iterate, lines 29-33: Some(tt) unless tt is Eof.
some(r) == ~r.panicked /\ r.token.kind.tag # "Eof"

\* Scanner::iterate: one call of the closure.
iterate(s) == next_token(s)

----------------------------------------------------------------------------
\* Scanner::new(source), then Scanner::test on it.
Init ==
    /\ source \in Sources
    /\ chars = source
    /\ remaining_len = ByteLen(source)
    /\ line = 1
    /\ stream = <<>>
    /\ tt = NoToken
    /\ calls = 0
    /\ pc = "scanning"

\* Scanner::test, lines 41-45: what one turn of the loop does with the
\* closure's result r.  A token is pushed, or the iterator ends and test
\* returns the stream, or the call panicked and the scan is lost.
push(r) ==
    IF r.panicked
    THEN /\ pc' = "panicked"
         /\ UNCHANGED <<chars, remaining_len, line, stream, tt>>
    ELSE /\ chars' = r.s.chars
         /\ remaining_len' = r.s.remaining_len
         /\ line' = r.s.line
         /\ tt' = r.token
         /\ stream' = IF some(r) THEN Append(stream, r.token) ELSE stream
         /\ pc' = IF some(r) THEN "scanning" ELSE "done"

\* Scanner::test: one turn of its loop over iterate().
test ==
    /\ pc = "scanning"
    /\ calls' = calls + 1
    /\ push(iterate(Scanner(chars, remaining_len, line)))
    /\ UNCHANGED source

Next == test

Spec == Init /\ [][Next]_vars

----------------------------------------------------------------------------
\* What the properties below read off a state.

Whitespace == {" ", "\t", "\r", "\n"}

\* Characters consumed so far.
Consumed == Len(source) - Len(chars)

\* Whitespace characters at the front of the unconsumed text.
Leading ==
    CHOOSE n \in 0..Len(chars) :
        /\ \A i \in 1..n : chars[i] \in Whitespace
        /\ n = Len(chars) \/ chars[n + 1] \notin Whitespace

\* Index in source of the character the next token starts with; past the end
\* when only whitespace is left.
StartIdx == Consumed + Leading + 1

AtTokenStart == pc = "scanning" /\ StartIdx <= Len(source)

\* The character at index i of source, EOF past the end.
CharAt(i) == IF i \in 1..Len(source) THEN source[i] ELSE EOF

\* Byte offset of the character at index i of source.
Offset(i) == ByteLen(SubSeq(source, 1, i - 1))

IsEof(t) == t.kind.tag = "Eof"

----------------------------------------------------------------------------
\* C1: scanning never aborts: no source text makes a next_token call panic in
\* classification or literal decoding.
C1_NeverPanics == pc # "panicked"

\* C2: every next_token call that returns a token other than Eof consumes at
\* least one character, the cursor never moves backwards, and no scan of a
\* source of n characters makes more than n + 1 calls.
C2_Progress ==
    [][ /\ (pc' # "panicked" /\ ~IsEof(tt')) => Len(chars') < Len(chars)
        /\ Len(chars') <= Len(chars)
        /\ calls' <= Len(source) + 1 ]_vars

\* C2's case: a scan that needed all n + 1 calls, one per character and one
\* for Eof.
C2_Witness == pc = "done" /\ Len(source) >= 3 /\ calls = Len(source) + 1

\* C3 as stated: when the scan is over the stream is not empty, its last
\* element is Eof and no other element is.
C3_EofLast ==
    pc = "done" =>
        /\ stream # <<>>
        /\ IsEof(stream[Len(stream)])
        /\ \A i \in 1..(Len(stream) - 1) : ~IsEof(stream[i])

\* C3 amended: the stream never holds an Eof token; the scan is over exactly
\* when next_token has returned Eof, which is not appended.
C3_NoEofInStream ==
    /\ \A i \in 1..Len(stream) : ~IsEof(stream[i])
    /\ pc = "done" => IsEof(tt)
    /\ (pc = "scanning" /\ calls > 0) => (~IsEof(tt) /\ stream[Len(stream)] = tt)

\* C3's case: a finished scan that produced tokens.
C3_Witness == pc = "done" /\ Len(stream) >= 2

\* The two-character operators and the kind each is to yield.
TwoCharKind(a, b) ==
    CASE a = "-" /\ b = "-" -> "MinusMinus"
      [] a = "-" /\ b = ">" -> "Arrow"
      [] a = "+" /\ b = "+" -> "PlusPlus"
      [] a = "<" /\ b = "=" -> "LtEqual"
      [] a = ">" /\ b = "=" -> "GtEqual"
      [] a = "=" /\ b = "=" -> "EqualEqual"
      [] a = "!" /\ b = "=" -> "BangEqual"
      [] OTHER -> "None"

\* C4: when the two characters at a token start form a two-character
\* operator, next_token returns one token of that kind whose span covers both
\* characters, and the cursor is left after the second.
C4_MaximalMunch ==
    [][ (AtTokenStart /\ TwoCharKind(CharAt(StartIdx), CharAt(StartIdx + 1)) # "None")
        => /\ pc' = "scanning"
           /\ tt'.kind = Kind(TwoCharKind(CharAt(StartIdx), CharAt(StartIdx + 1)))
           /\ tt'.span = Span(Offset(StartIdx), Offset(StartIdx) + 2)
           /\ chars' = SubSeq(source, StartIdx + 2, Len(source)) ]_vars

\* The tokens of the stream whose span holds byte offset o.
Covering(o) ==
    {i \in 1..Len(stream) : stream[i].span.start <= o /\ o < stream[i].span.end}

\* The character of source that byte offset o lies in.
CharOfByte(o) ==
    CHOOSE c \in Char : \E i \in 1..Len(source) :
        /\ source[i] = c
        /\ Offset(i) <= o
        /\ o < Offset(i) + len_utf8(c)

\* C5 as stated: once a source is scanned to exhaustion every byte offset of
\* it lies in the span of exactly one token of the stream.
C5_Partition ==
    pc = "done" =>
        \A o \in 0..(ByteLen(source) - 1) : Cardinality(Covering(o)) = 1

\* C5 amended: no byte offset lies in two spans, and a byte that lies in none
\* is a byte of whitespace (which is skipped, not tokenised); this holds of
\* the consumed part of the source throughout the scan, and a finished scan
\* has consumed everything.
C5_NoOverlapGapsAreWhitespace ==
    /\ \A o \in 0..(ByteLen(source) - ByteLen(chars) - 1) :
          /\ Cardinality(Covering(o)) <= 1
          /\ Covering(o) = {} => CharOfByte(o) \in Whitespace
    /\ \A i \in 1..Len(stream) :
          stream[i].span.end <= ByteLen(source) - ByteLen(chars)
    /\ pc = "done" => chars = <<>>

\* C5's case: a finished scan with tokens on both sides of skipped whitespace.
C5_Witness ==
    /\ pc = "done"
    /\ Len(stream) >= 2
    /\ \E o \in 0..(ByteLen(source) - 1) :
          /\ Covering(o) = {}
          /\ \E i, j \in 1..Len(stream) :
                stream[i].span.end <= o /\ o < stream[j].span.start

\* The text of source a token's span covers.
Lexeme(t) ==
    SubSeq(source, chars_before(source, t.span.start) + 1,
                   chars_before(source, t.span.end))

IsInt(t) == t.kind.tag = "Literal" /\ t.kind.kind = "Int"

OctalDigits == {"0", "1", "2", "3", "4", "5", "6", "7"}

\* The radix an integer literal's text announces.
RadixOf(lex) ==
    CASE Len(lex) >= 2 /\ lex[1] = "0" /\ lex[2] = "b" -> 2
      [] Len(lex) >= 2 /\ lex[1] = "0" /\ lex[2] = "x" -> 16
      [] Len(lex) >= 2 /\ lex[1] = "0" /\ lex[2] \in OctalDigits -> 8
      [] OTHER -> 10

\* The digit run of an integer literal: the text after the marker.
DigitRun(lex) ==
    IF RadixOf(lex) \in {2, 16} THEN SubSeq(lex, 3, Len(lex)) ELSE lex

DigitValue ==
    [c \in {"0","1","2","3","4","5","6","7","8","9","A","b"} |->
        CASE c = "0" -> 0 [] c = "1" -> 1 [] c = "2" -> 2 [] c = "3" -> 3
          [] c = "4" -> 4 [] c = "5" -> 5 [] c = "6" -> 6 [] c = "7" -> 7
          [] c = "8" -> 8 [] c = "9" -> 9 [] c = "A" -> 10 [] c = "b" -> 11]

RECURSIVE Power(_, _)
Power(b, e) == IF e = 0 THEN 1 ELSE b * Power(b, e - 1)

\* The number a digit run denotes in a radix: the sum of digit * radix^place.
RECURSIVE PlaceValue(_, _)
PlaceValue(run, radix) ==
    IF run = <<>>
    THEN 0
    ELSE DigitValue[Head(run)] * Power(radix, Len(run) - 1)
         + PlaceValue(Tail(run), radix)

\* C6: every integer literal in the stream carries the radix its prefix
\* announces and, as value, the number its digit run denotes in that radix.
C6_IntegerDecoding ==
    \A i \in 1..Len(stream) :
        IsInt(stream[i]) =>
            /\ stream[i].kind.base = RadixOf(Lexeme(stream[i]))
            /\ DigitRun(Lexeme(stream[i])) # <<>>
            /\ stream[i].symbol =
                 SymbolInt(PlaceValue(DigitRun(Lexeme(stream[i])),
                                      RadixOf(Lexeme(stream[i]))))

\* C6's case: 0x1A scanned as one hexadecimal literal of value 26.
C6_Witness ==
    /\ stream # <<>>
    /\ IsInt(stream[1])
    /\ Lexeme(stream[1]) = <<"0", "x", "1", "A">>
    /\ stream[1].kind.base = 16
    /\ stream[1].symbol.num = 26

\* Index in source of the first '"' after index i; 0 when there is none.
NextQuote(i) ==
    IF \E q \in (i + 1)..Len(source) : source[q] = "\""
    THEN CHOOSE q \in (i + 1)..Len(source) :
            /\ source[q] = "\""
            /\ \A k \in (i + 1)..(q - 1) : source[k] # "\""
    ELSE 0

\* C7: a '"' at a token start with a later '"' yields one string literal whose
\* span runs from the opening quote through the next quote, and whose value
\* is the text strictly between the two.
C7_StringScanning ==
    [][ (AtTokenStart /\ CharAt(StartIdx) = "\"" /\ NextQuote(StartIdx) # 0)
        => /\ pc' = "scanning"
           /\ tt'.kind = Literal("Str", 0, 1)
           /\ tt'.span = Span(Offset(StartIdx), Offset(NextQuote(StartIdx)) + 1)
           /\ tt'.symbol = SymbolString(SubSeq(source, StartIdx + 1,
                                               NextQuote(StartIdx) - 1))
           /\ stream' = Append(stream, tt')
           /\ chars' = SubSeq(source, NextQuote(StartIdx) + 1, Len(source)) ]_vars

\* C7's case: a closed string literal holding a two-byte character, scanned
\* after another token.
C7_Witness ==
    /\ Len(stream) >= 2
    /\ stream[2].kind = Literal("Str", 0, 1)
    /\ Lexeme(stream[2]) = <<"\"", EAcute, "\"">>
    /\ stream[2].symbol.text = <<EAcute>>
    /\ stream[2].span = Span(1, 5)

\* C8: a '"' at a token start with no later '"' yields, without failure, one
\* string literal covering everything from the opening quote to the end of
\* the source.
C8_UnterminatedString ==
    [][ (AtTokenStart /\ CharAt(StartIdx) = "\"" /\ NextQuote(StartIdx) = 0)
        => /\ pc' = "scanning"
           /\ tt'.kind = Literal("Str", 0, 1)
           /\ tt'.span = Span(Offset(StartIdx), ByteLen(source))
           /\ chars' = <<>> ]_vars

\* Whether a block comment opened at index i of source (its '/') is closed: a
\* "*/" begins after the two-character opener.
Closed(i) ==
    \E k \in (i + 2)..(Len(source) - 1) : source[k] = "*" /\ source[k + 1] = "/"

\* C9: a "/*" at a token start with no closing "*/" after it yields one
\* BlockComment token spanning to the end of the source, without failure, and
\* the next call returns Eof.
C9_UnterminatedBlockComment ==
    [][ (/\ AtTokenStart
         /\ CharAt(StartIdx) = "/"
         /\ CharAt(StartIdx + 1) = "*"
         /\ ~Closed(StartIdx))
        => /\ pc' = "scanning"
           /\ tt'.kind = Kind("BlockComment")
           /\ tt'.span = Span(Offset(StartIdx), ByteLen(source))
           /\ IsEof(next_token(Scanner(chars', remaining_len', line')).token) ]_vars

\* The characters some classification rule names.
Recognised(c) ==
    \/ c \in Whitespace
    \/ c \in Lower \cup Upper \cup {"_"}
    \/ c \in {"0", "1", "2", "3", "4", "5", "6", "7", "8", "9"}
    \/ c \in {"/", ";", ",", ".", "(", ")", "{", "}", "[", "]", "#", "*", "&",
              "|", "^", "~", "\"", "-", "+", "<", ">", "=", "!"}

\* C10: a character at a token start that no rule recognises yields an
\* Unknown token whose span and text are that one character, and the scan
\* goes on with the character after it.
C10_Unknown ==
    [][ (AtTokenStart /\ ~Recognised(CharAt(StartIdx)))
        => /\ pc' = "scanning"
           /\ tt'.kind = Kind("Unknown")
           /\ tt'.span = Span(Offset(StartIdx),
                              Offset(StartIdx) + len_utf8(CharAt(StartIdx)))
           /\ tt'.symbol = SymbolLiteral(<<CharAt(StartIdx)>>)
           /\ stream' = Append(stream, tt')
           /\ chars' = SubSeq(source, StartIdx + 1, Len(source)) ]_vars

\* C10's case: an Unknown token for '$' after skipped whitespace, with the
\* scan going on to a token that starts right after it.
C10_Witness ==
    /\ Len(stream) >= 2
    /\ stream[1].kind = Kind("Unknown")
    /\ stream[1].symbol.text = <<"$">>
    /\ stream[1].span = Span(1, 2)
    /\ stream[2].span.start = 2

\* C11: when the input is exhausted next_token returns an Eof token whose
\* span is empty and sits at the final offset: start = end = len(source).
C11_EofSpanAtEnd ==
    IsEof(tt) => tt.span = Span(ByteLen(source), ByteLen(source))

Digits == {"0", "1", "2", "3", "4", "5", "6", "7", "8", "9"}

\* Index of the last character of the maximal run of characters of S that
\* starts at index i of source; i - 1 when the run is empty.
RunEnd(i, S) ==
    CHOOSE k \in (i - 1)..Len(source) :
        /\ \A j \in i..k : source[j] \in S
        /\ k = Len(source) \/ source[k + 1] \notin S

\* A token start at a number that is scanned as decimal: a digit 1-9, or a 0
\* not followed by b, x or an octal digit.
AtDecimal ==
    /\ AtTokenStart
    /\ \/ CharAt(StartIdx) \in Digits \ {"0"}
       \/ /\ CharAt(StartIdx) = "0"
          /\ CharAt(StartIdx + 1) \notin {"b", "x"} \cup OctalDigits

\* The decimal number token the call returned: its kind, and the index of
\* its last character.
DecimalToken(kind, last) ==
    /\ pc' = "scanning"
    /\ tt'.kind = Literal(kind, 10, 0)
    /\ tt'.span = Span(Offset(StartIdx), Offset(last + 1))
    /\ stream' = Append(stream, tt')
    /\ chars' = SubSeq(source, last + 1, Len(source))

\* C12 as stated: a decimal digit run becomes a float exactly when a '.' and
\* at least one digit follow it, the fraction digits being part of the token;
\* followed by '.' and a non-digit or the end it stays an integer that ends
\* before the '.'.
C12_FloatNeedsFractionDigit ==
    [][ AtDecimal =>
          IF /\ CharAt(RunEnd(StartIdx, Digits) + 1) = "."
             /\ CharAt(RunEnd(StartIdx, Digits) + 2) \in Digits
          THEN DecimalToken("Float", RunEnd(RunEnd(StartIdx, Digits) + 2, Digits))
          ELSE DecimalToken("Int", RunEnd(StartIdx, Digits)) ]_vars

\* C12 amended: a decimal digit run becomes a float exactly when a '.'
\* follows it, whatever follows the '.'; the '.' and the digits after it, if
\* any, are part of the token.  Otherwise it is an integer ending with the run.
C12_FloatWhenDotFollows ==
    [][ AtDecimal =>
          IF CharAt(RunEnd(StartIdx, Digits) + 1) = "."
          THEN DecimalToken("Float", RunEnd(RunEnd(StartIdx, Digits) + 2, Digits))
          ELSE DecimalToken("Int", RunEnd(StartIdx, Digits)) ]_vars

\* C12's case: the run 1 followed by '.' and a non-digit, scanned as the
\* float "1." with the non-digit left for the next token.
C12_Witness ==
    /\ Len(stream) = 2
    /\ stream[1].kind = Literal("Float", 10, 0)
    /\ Lexeme(stream[1]) = <<"1", ".">>
    /\ stream[1].symbol = SymbolFloat(1, 0)
    /\ stream[2].kind = Kind("Ident")

\* Newline characters among the first n characters of source.
Newlines(n) == Cardinality({i \in 1..n : source[i] = "\n"})

\* C14: the line counter starts at 1 and counts exactly the newlines the
\* cursor has consumed, wherever they were consumed; after a scan to
\* exhaustion it is 1 plus the number of newlines in the source.
C14_LineCountsNewlines ==
    /\ pc # "panicked" => line = 1 + Newlines(Consumed)
    /\ pc = "done" => line = 1 + Newlines(Len(source))

WellFormed(t) ==
    /\ 0 <= t.span.start
    /\ t.span.start <= t.span.end
    /\ t.span.end <= ByteLen(source)
    /\ ~IsEof(t) => t.span.end > t.span.start

\* C15: every token next_token returns has 0 <= start <= end <= len(source),
\* and every token other than Eof has a non-empty span.
C15_SpanWellFormed ==
    /\ calls > 0 /\ pc # "panicked" => WellFormed(tt)
    /\ \A i \in 1..Len(stream) : WellFormed(stream[i])

\* C15's case: a scan that returned a token after skipped whitespace, a token
\* ending at the end of the source, and Eof.
C15_Witness ==
    /\ pc = "done"
    /\ Len(stream) >= 2
    /\ stream[1].span.start > 0
    /\ stream[Len(stream)].span.end = ByteLen(source)

\* C16: whitespace is skipped and nothing else is lost: over the tokens the
\* successive calls return before end-of-input, each token starts at or after
\* the end of the one before, none has kind Whitespace, the scan ends only
\* with everything consumed and not at some token kind, and every byte of the
\* consumed text that no span covers is whitespace.
C16_OnlyWhitespaceSkipped ==
    /\ \A i \in 2..Len(stream) : stream[i].span.start >= stream[i - 1].span.end
    /\ \A i \in 1..Len(stream) : stream[i].kind.tag # "Whitespace"
    /\ (calls > 0 /\ pc # "panicked") => tt.kind.tag # "Whitespace"
    /\ pc = "done" => (chars = <<>> /\ IsEof(tt))
    /\ \A o \in 0..(ByteLen(source) - ByteLen(chars) - 1) :
          Covering(o) = {} => CharOfByte(o) \in Whitespace

\* C16's case: a finished scan that went on past a right brace and skipped
\* the whitespace after it.
C16_Witness ==
    /\ pc = "done"
    /\ Len(stream) >= 2
    /\ stream[1].kind = Kind("RightBrace")
    /\ stream[2].span.start > stream[1].span.end
    /\ CharOfByte(stream[1].span.end) \in Whitespace

\* The letters: the ASCII letters, as the classification tests them.
Letters == Lower \cup Upper

\* The token the call returned: of kind tag, from the token start through
\* the character at index last, the stream grown by it and the text after
\* last left to scan.
PlainToken(tag, last) ==
    /\ pc' = "scanning"
    /\ tt'.kind = Kind(tag)
    /\ tt'.span = Span(Offset(StartIdx), Offset(last + 1))
    /\ stream' = Append(stream, tt')
    /\ chars' = SubSeq(source, last + 1, Len(source))

\* C17: a '<' at a token start with a letter right after it gives one Header
\* token from the '<' to just before the next '>', or to the end of the
\* source when there is none, and the '>' is left as the start of the next
\* token; a '<' with anything else after it does not give Header, and no
\* call returns Header from any other start.
C17_HeaderHeuristic ==
    [][ /\ (AtTokenStart /\ CharAt(StartIdx) = "<"
               /\ CharAt(StartIdx + 1) \in Letters)
           => PlainToken("Header", RunEnd(StartIdx + 1, Char \ {">"}))
        /\ (calls' > calls /\ pc' # "panicked" /\ tt'.kind.tag = "Header")
           => (AtTokenStart /\ CharAt(StartIdx) = "<"
                  /\ CharAt(StartIdx + 1) \in Letters) ]_vars

\* C17's case: "<a>" after another character: a Header over "<a" whose '>'
\* came out as the token after it.
C17_Witness ==
    /\ Len(stream) >= 3
    /\ stream[2].kind = Kind("Header")
    /\ Lexeme(stream[2]) = <<"<", "a">>
    /\ stream[3].kind = Kind("Gt")
    /\ stream[3].span.start = stream[2].span.end

\* C18: a letter or '_' at a token start gives one Ident token covering the
\* maximal run of letters and underscores that starts there; a digit ends
\* the run, and the digit is where the next token, a number, starts.
C18_IdentifierScanning ==
    [][ /\ (AtTokenStart /\ CharAt(StartIdx) \in Letters \cup {"_"})
           => PlainToken("Ident", RunEnd(StartIdx, Letters \cup {"_"}))
        /\ (AtTokenStart /\ CharAt(StartIdx) \in Digits /\ pc' # "panicked")
           => /\ tt'.kind.tag = "Literal"
              /\ tt'.kind.kind \in {"Int", "Float"}
              /\ tt'.span.start = Offset(StartIdx) ]_vars

\* C18's case: an identifier run cut off by a digit, the digit scanned as an
\* integer that starts where the identifier ended.
C18_Witness ==
    /\ Len(stream) >= 2
    /\ stream[1].kind = Kind("Ident")
    /\ Lexeme(stream[1]) = <<"a", "_">>
    /\ stream[2].kind = Literal("Int", 10, 0)
    /\ Lexeme(stream[2]) = <<"1">>
    /\ stream[2].span.start = stream[1].span.end

\* Index in source of the '*' of the first "*/" that begins after the
\* two-character opener of the block comment opened at index i.
CloseIdx(i) ==
    CHOOSE k \in (i + 2)..(Len(source) - 1) :
        /\ source[k] = "*" /\ source[k + 1] = "/"
        /\ \A j \in (i + 2)..(k - 1) : ~(source[j] = "*" /\ source[j + 1] = "/")

\* C19: the '*' of a block comment's opener is not taken as the '*' of its
\* closer: a "/*" at a token start gives a BlockComment that ends with the
\* first "*/" beginning after the opener, and so is at least 4 bytes long, or
\* that runs to the end of the source when there is no such "*/"; "/*/"
\* followed by more text is a comment still open.
C19_OpenerStarNotReused ==
    [][ (/\ AtTokenStart
         /\ CharAt(StartIdx) = "/"
         /\ CharAt(StartIdx + 1) = "*")
        => /\ pc' = "scanning"
           /\ tt'.kind = Kind("BlockComment")
           /\ tt'.span.start = Offset(StartIdx)
           /\ tt'.span.end = IF Closed(StartIdx)
                             THEN Offset(CloseIdx(StartIdx) + 2)
                             ELSE ByteLen(source)
           /\ Closed(StartIdx) => tt'.span.end - tt'.span.start >= 4 ]_vars

\* C20: for the span of every token a call returns, Span::len is the number
\* of bytes covered, end - start, and Span::is_empty holds exactly when
\* start = end, the zero-length Eof span at a non-zero offset included.
C20_SpanLenIsEmpty ==
    (calls > 0 /\ pc # "panicked")
        => /\ tt.span.start <= tt.span.end
           /\ len(tt.span) = tt.span.end - tt.span.start
           /\ is_empty(tt.span) <=> (tt.span.start = tt.span.end)

====
